---- MODULE Spec2Model ----
(***************************************************************************)
(* Model of the sensor dashboard: the Index page (snapshot, data source,   *)
(* region, status cards), the RecommendationsPanel (advisory list, AI      *)
(* toggle, asynchronous generation calls) and the SensorAIService          *)
(* singleton (model load, generateRecommendations, rule-based fallback).   *)
(*                                                                         *)
(* Readings are fixed-point numbers in tenths: 65.4 is 654, the cutoff 20  *)
(* is T(20) = 200.  An absent reading (JavaScript null) is Null.  A          *)
(* confidence is held in hundredths: 0.95 is 95.                            *)
(***************************************************************************)
EXTENDS Integers, Sequences, FiniteSets, TLC

\* null, as an integer no reading takes (readings are not negative)
Null == -1

\* n units as tenths
T(n) == n * 10

Fields == {"soilMoisture", "temperature", "humidity", "waterLevel", "rain", "light"}

\* JavaScript ToNumber on a reading: a relational comparison converts null to 0
Num(v) == IF v = Null THEN 0 ELSE v

\* Object.values(data).some(value => value === null)
hasNullValues(data) == \E f \in Fields : data[f] = Null

\* the null reading with light: 0 in place of light: null
NullSnapshot_LightZero == [f \in Fields |-> IF f = "light" THEN 0 ELSE Null]

NullSnapshot == [f \in Fields |-> Null]

Snapshot(sm, te, hu, wl, ra, li) ==
  [soilMoisture |-> sm, temperature |-> te, humidity |-> hu,
   waterLevel |-> wl, rain |-> ra, light |-> li]

\* useState<SensorData>({...}) in Index
InitialSensorData == Snapshot(654, 248, 582, 789, 123, 4500)

(***************************************************************************)
(* Index: climate regions and the status classifier                        *)
(***************************************************************************)
regions ==
  [temperate |->
     [optimalTemp |-> [min |-> T(15), max |-> T(25)],
      optimalHumidity |-> [min |-> T(40), max |-> T(70)],
      optimalSoilMoisture |-> [min |-> T(40), max |-> T(80)]],
   tropical |->
     [optimalTemp |-> [min |-> T(22), max |-> T(32)],
      optimalHumidity |-> [min |-> T(60), max |-> T(85)],
      optimalSoilMoisture |-> [min |-> T(50), max |-> T(85)]],
   arid |->
     [optimalTemp |-> [min |-> T(20), max |-> T(35)],
      optimalHumidity |-> [min |-> T(20), max |-> T(40)],
      optimalSoilMoisture |-> [min |-> T(20), max |-> T(50)]],
   mediterranean |->
     [optimalTemp |-> [min |-> T(18), max |-> T(28)],
      optimalHumidity |-> [min |-> T(45), max |-> T(65)],
      optimalSoilMoisture |-> [min |-> T(35), max |-> T(70)]]]

Regions == DOMAIN regions

\* the classifier's switch, for a value that went through ToNumber
statusOfNumber(sensor, value, selected) ==
  LET region == regions[selected] IN
  CASE sensor = "soilMoisture" ->
         IF value < region.optimalSoilMoisture.min - T(20) THEN "critical"
         ELSE IF value < region.optimalSoilMoisture.min
                 \/ value > region.optimalSoilMoisture.max + T(10) THEN "warning"
         ELSE "good"
    [] sensor = "temperature" ->
         IF value < region.optimalTemp.min - T(10)
            \/ value > region.optimalTemp.max + T(10) THEN "critical"
         ELSE IF value < region.optimalTemp.min
                 \/ value > region.optimalTemp.max THEN "warning"
         ELSE "good"
    [] sensor = "humidity" ->
         IF value < region.optimalHumidity.min - T(20)
            \/ value > region.optimalHumidity.max + T(20) THEN "critical"
         ELSE IF value < region.optimalHumidity.min
                 \/ value > region.optimalHumidity.max THEN "warning"
         ELSE "good"
    [] sensor = "waterLevel" ->
         IF value < T(20) THEN "critical"
         ELSE IF value < T(40) THEN "warning"
         ELSE "good"
    [] sensor = "rain" ->
         IF value > T(80) THEN "warning" ELSE "good"
    [] sensor = "light" ->
         IF value < T(100) THEN "critical"
         ELSE IF value < T(300) THEN "warning"
         ELSE "good"
    [] OTHER -> "good"

\* the classifier without its null guard: null is compared as the number 0
getSensorStatus_NoNullGuard(sensor, value, selected) ==
  statusOfNumber(sensor, Num(value), selected)

\* the classifier with the water-level cutoffs lowered in the arid region
getSensorStatus_RegionalWater(sensor, value, selected) ==
  IF value = Null THEN "critical"
  ELSE IF sensor = "waterLevel" /\ selected = "arid"
       THEN (IF value < T(10) THEN "critical"
             ELSE IF value < T(30) THEN "warning" ELSE "good")
       ELSE statusOfNumber(sensor, value, selected)

\* the classifier with the water-level cutoffs compared by <= instead of <
getSensorStatus_WaterInclusive(sensor, value, selected) ==
  IF value = Null THEN "critical"
  ELSE IF sensor = "waterLevel"
       THEN (IF value <= T(20) THEN "critical"
             ELSE IF value <= T(40) THEN "warning" ELSE "good")
       ELSE statusOfNumber(sensor, value, selected)

\* the classifier with the light warning cutoff of the panel's rule (200)
getSensorStatus_LightAt200(sensor, value, selected) ==
  IF value = Null THEN "critical"
  ELSE IF sensor = "light"
       THEN (IF value < T(100) THEN "critical"
             ELSE IF value < T(200) THEN "warning" ELSE "good")
       ELSE statusOfNumber(sensor, value, selected)

\* the classifier with the rain cutoff compared by >= instead of >
getSensorStatus_RainInclusive(sensor, value, selected) ==
  IF value = Null THEN "critical"
  ELSE IF sensor = "rain"
       THEN (IF value >= T(80) THEN "warning" ELSE "good")
       ELSE statusOfNumber(sensor, value, selected)

getSensorStatus(sensor, value, selected) ==
  IF value = Null THEN "critical"
  ELSE statusOfNumber(sensor, value, selected)

\* the six SensorCard status props of one render of Index
renderStatus(data, selected) ==
  [f \in Fields |-> getSensorStatus(f, data[f], selected)]

(***************************************************************************)
(* Advisories                                                              *)
(***************************************************************************)
Advisory(type, title, message, action, confidence) ==
  [type |-> type, title |-> title, message |-> message,
   action |-> action, confidence |-> confidence]

\* issues.slice(1, n), the start index off by one
Slice_FromOne(s, n) == SubSeq(s, 2, IF Len(s) < n THEN Len(s) ELSE n)

\* issues.slice(0, n)
Slice(s, n) == SubSeq(s, 1, IF Len(s) < n THEN Len(s) ELSE n)

\* a conditional push
PushIf(cond, s, a) == IF cond THEN Append(s, a) ELSE s

NoSensorData ==
  Advisory("critical", "No Sensor Data",
           "Arduino sensors are not providing data. Check connections and power.",
           "Verify Arduino connection, check wiring, and ensure proper power supply", 95)

(***************************************************************************)
(* SensorAIService.getFallbackRecommendations, nullable-aware file         *)
(***************************************************************************)
nullableRules(data) ==
  LET s1 == PushIf(data.soilMoisture < T(20), <<>>,
              Advisory("critical", "Urgent: Soil Critically Dry",
                "Soil moisture is dangerously low. Plants are at risk of severe stress or death.",
                "Water immediately and check irrigation system", 95))
      s2 == PushIf(data.waterLevel < T(20), s1,
              Advisory("critical", "Water Tank Nearly Empty",
                "Irrigation reservoir is critically low. Watering system may fail.",
                "Refill water tank immediately", 90))
      s3 == IF data.temperature < T(5) \/ data.temperature > T(40)
            THEN Append(s2, Advisory("critical", "Extreme Temperature Alert",
                   "Temperature is outside safe range for most plants.",
                   "Adjust environmental controls immediately", 90))
            ELSE IF data.temperature < T(10) \/ data.temperature > T(35)
            THEN Append(s2, Advisory("warning", "Temperature Warning",
                   "Temperature is approaching unsafe levels for many plants.",
                   "Monitor closely and prepare environmental adjustments", 80))
            ELSE s2
      s4 == IF data.light < T(100)
            THEN Append(s3, Advisory("critical", "Critical Light Deficiency",
                   "Extremely low light levels will severely impact plant growth.",
                   "Add supplemental lighting immediately", 85))
            ELSE IF data.light < T(300)
            THEN Append(s3, Advisory("warning", "Insufficient Light",
                   "Light levels are below optimal for healthy plant growth.",
                   "Consider adding supplemental lighting or relocating plants", 75))
            ELSE s3
      s5 == PushIf(Len(s4) = 0, s4,
              Advisory("good", "Conditions Look Good",
                "Environmental parameters are within acceptable ranges for most plants.",
                "Continue monitoring and maintain current care routine", 85))
  IN Slice(s5, 3)

getFallbackRecommendationsNullable(data) ==
  IF hasNullValues(data) THEN <<NoSensorData>>
  ELSE nullableRules(data)

(***************************************************************************)
(* SensorAIService.getFallbackRecommendations, services/sensorAI.ts        *)
(* (fields typed number; a null reading is compared as the number 0)       *)
(***************************************************************************)
getFallbackRecommendationsPlain(data) ==
  LET s1 == PushIf(Num(data.soilMoisture) < T(30), <<>>,
              Advisory("critical", "Urgent: Soil Critically Dry",
                "Soil moisture is dangerously low. Plants are at risk of severe stress or death.",
                "Water immediately and check irrigation system", 95))
      s2 == PushIf(Num(data.waterLevel) < T(20), s1,
              Advisory("critical", "Water Tank Nearly Empty",
                "Irrigation reservoir is critically low. Watering system may fail.",
                "Refill water tank immediately", 90))
      s3 == PushIf(Num(data.temperature) > T(35), s2,
              Advisory("warning", "High Temperature Alert",
                "Excessive heat can stress plants and increase water needs.",
                "Provide shade or increase ventilation", 80))
      s4 == PushIf(Num(data.light) < T(200), s3,
              Advisory("warning", "Insufficient Light",
                "Low light levels may slow plant growth and photosynthesis.",
                "Add supplemental lighting or relocate plants", 75))
      s5 == PushIf(Len(s4) = 0, s4,
              Advisory("good", "Optimal Growing Conditions",
                "All environmental parameters are within healthy ranges for plant growth.",
                "Continue current care routine and monitor regularly", 85))
  IN Slice(s5, 3)

\* the two files of the service
ServiceFiles == {"nullable", "plain"}

\* the service's rule-based fallback, as the deployed file computes it
serviceFallback(file, data) ==
  IF file = "nullable" THEN getFallbackRecommendationsNullable(data)
  ELSE getFallbackRecommendationsPlain(data)

(***************************************************************************)
(* RecommendationsPanel.getFallbackRecommendations (Basic mode)            *)
(***************************************************************************)
panelIssues(data) ==
  LET s1 == IF Num(data.soilMoisture) < T(30)
            THEN <<Advisory("critical", "Soil Moisture Critical",
                     "Soil is too dry. Water immediately to prevent plant stress.",
                     "Water the plants now", 90)>>
            ELSE IF Num(data.soilMoisture) < T(50)
            THEN <<Advisory("warning", "Soil Moisture Low",
                     "Consider watering soon to maintain optimal moisture levels.",
                     "Schedule watering within 2-4 hours", 80)>>
            ELSE <<>>
      s2 == IF Num(data.temperature) > T(35)
            THEN Append(s1, Advisory("warning", "High Temperature",
                   "Temperature is high. Provide shade or increase ventilation.",
                   "Install shade cloth or improve airflow", 85))
            ELSE IF Num(data.temperature) < T(10)
            THEN Append(s1, Advisory("warning", "Low Temperature",
                   "Temperature is low. Consider protection for sensitive plants.",
                   "Use frost protection or heating", 80))
            ELSE s1
      s3 == PushIf(Num(data.waterLevel) < T(20), s2,
              Advisory("critical", "Water Tank Low",
                "Water reservoir is critically low. Refill immediately.",
                "Refill water tank", 95))
  IN PushIf(Num(data.light) < T(200), s3,
       Advisory("warning", "Low Light Conditions",
         "Light levels are low. Consider supplemental lighting.",
         "Add grow lights or relocate plants", 75))

\* the panel's fallback without its "no issues" advisory
panelFallback_NoGood(data) == panelIssues(data)

\* the panel's fallback with the "no issues" advisory pushed unconditionally
panelFallback_GoodAlways(data) ==
  Append(panelIssues(data),
    Advisory("good", "Optimal Conditions",
      "All sensor readings are within optimal ranges.",
      "Continue current care routine", 90))

panelFallback(data) ==
  LET recommendations == panelIssues(data) IN
  PushIf(Len(recommendations) = 0, recommendations,
    Advisory("good", "Optimal Conditions",
      "All sensor readings are within optimal ranges.",
      "Continue current care routine", 90))

(***************************************************************************)
(* SensorAIService.getSuitablePlants                                       *)
(***************************************************************************)
\* plants.push(...) of a list of names
PushAllIf(cond, s, names) == IF cond THEN s \o names ELSE s

\* the list the rules accumulate, before duplicates are removed (a null
\* reading, which only services/sensorAI.ts lets through, compares as 0)
accumulatedPlants(data) ==
  LET temperature == Num(data.temperature)
      humidity == Num(data.humidity)
      light == Num(data.light)
      soilMoisture == Num(data.soilMoisture)
      warm == temperature >= T(20) /\ temperature <= T(30)
      p1 == PushAllIf(warm /\ light > T(500) /\ soilMoisture > T(50), <<>>,
              <<"Tomatoes", "Peppers", "Basil", "Cucumbers">>)
      p2 == PushAllIf(warm /\ humidity > T(60), p1,
              <<"Tropical herbs", "Lettuce", "Spinach">>)
      p3 == PushAllIf(temperature >= T(15) /\ temperature < T(25), p2,
              <<"Broccoli", "Cabbage", "Peas", "Carrots">>)
      p4 == IF light > T(800) THEN p3 \o <<"Sunflowers", "Marigolds", "Zinnias">>
            ELSE IF light > T(400)
            THEN p3 \o <<"Herbs", "Leafy greens", "Strawberries">>
            ELSE IF light > T(200)
            THEN p3 \o <<"Lettuce", "Arugula", "Microgreens">>
            ELSE p3
  IN IF soilMoisture > T(70) THEN p4 \o <<"Rice", "Watercress", "Mint">>
     ELSE IF soilMoisture < T(40)
     THEN p4 \o <<"Succulents", "Lavender", "Rosemary">>
     ELSE p4

\* [...new Set(plants)]: each name once, in the order of first insertion
RECURSIVE NewSet(_)
NewSet(s) ==
  IF s = <<>> THEN <<>>
  ELSE LET front == NewSet(SubSeq(s, 1, Len(s) - 1))
           last == s[Len(s)]
       IN IF \E i \in DOMAIN front : front[i] = last THEN front
          ELSE Append(front, last)

\* [...new Set(plants)] without the Set: duplicates are kept
uniquePlants_KeepDuplicates(s) == s

uniquePlants(s) == NewSet(s)

PlantsUnavailable == <<"Unable to recommend plants - sensor data required">>

\* services/sensorAI.ts: no check for null
getSuitablePlantsPlain(data) == Slice(uniquePlants(accumulatedPlants(data)), 8)

\* the nullable-aware file with the null check of getFallbackRecommendations,
\* over all six fields
getSuitablePlantsNullable_AnyField(data) ==
  IF hasNullValues(data) THEN PlantsUnavailable
  ELSE Slice(uniquePlants(accumulatedPlants(data)), 8)

\* the nullable-aware file
getSuitablePlantsNullable(data) ==
  IF \/ data.temperature = Null \/ data.humidity = Null
     \/ data.light = Null \/ data.soilMoisture = Null
  THEN PlantsUnavailable
  ELSE Slice(uniquePlants(accumulatedPlants(data)), 8)

\* the service's getSuitablePlants, as the deployed file computes it
servicePlants(f, data) ==
  IF f = "nullable" THEN getSuitablePlantsNullable(data)
  ELSE getSuitablePlantsPlain(data)

(***************************************************************************)
(* getSuitablePlants of the panel's basic variant                          *)
(***************************************************************************)
accumulatedPlantsBasic(data) ==
  LET temperature == Num(data.temperature)
      humidity == Num(data.humidity)
      light == Num(data.light)
      soilMoisture == Num(data.soilMoisture)
      p1 == PushAllIf(light > T(500) /\ temperature > T(20) /\ soilMoisture > T(40),
              <<>>, <<"Tomatoes", "Peppers", "Basil", "Sunflowers">>)
      p2 == PushAllIf(light > T(200) /\ light <= T(500), p1,
              <<"Lettuce", "Spinach", "Herbs", "Green Beans">>)
      p3 == PushAllIf(humidity > T(70), p2,
              <<"Ferns", "Orchids", "Tropical plants">>)
      p4 == PushAllIf(light <= T(200), p3,
              <<"Pothos", "Snake Plant", "ZZ Plant">>)
  IN PushAllIf(temperature < T(20) /\ temperature > T(10), p4,
       <<"Cabbage", "Broccoli", "Peas", "Carrots">>)

getSuitablePlantsBasic(data) ==
  LET plants == accumulatedPlantsBasic(data) IN
  IF Len(plants) > 0 THEN plants
  ELSE <<"Adjust conditions for optimal plant growth">>

(***************************************************************************)
(* Text.  A string is a sequence of fragments (TLA+ strings) whose         *)
(* concatenation it is; the labels and the priority words are fragments    *)
(* of their own, so that startsWith, replace and includes are computed on  *)
(* fragments.  A text is a sequence of lines.                              *)
(***************************************************************************)
RECURSIVE Join(_)
Join(frags) == IF frags = <<>> THEN "" ELSE Head(frags) \o Join(Tail(frags))

IsSpace(frag) == frag = " "

\* String.prototype.trim
RECURSIVE TrimLeft(_)
TrimLeft(line) ==
  IF line # <<>> /\ IsSpace(Head(line)) THEN TrimLeft(Tail(line)) ELSE line

RECURSIVE TrimRight(_)
TrimRight(line) ==
  IF line # <<>> /\ IsSpace(line[Len(line)])
  THEN TrimRight(SubSeq(line, 1, Len(line) - 1)) ELSE line

Trim(line) == TrimRight(TrimLeft(line))

\* String.prototype.startsWith, for a one-fragment prefix
StartsWith(line, label) == line # <<>> /\ Head(line) = label

\* String.prototype.replace(label, ''): the first occurrence is removed
RemoveFirst(line, label) ==
  IF \E i \in 1..Len(line) : line[i] = label
  THEN LET i == CHOOSE k \in 1..Len(line) :
                  line[k] = label /\ \A j \in 1..(k - 1) : line[j] # label
       IN SubSeq(line, 1, i - 1) \o SubSeq(line, i + 1, Len(line))
  ELSE line

\* String.prototype.toLowerCase on one fragment
LowerFrag(frag) ==
  CASE frag = "Critical" -> "critical"
    [] frag = "CRITICAL" -> "critical"
    [] frag = "Warning" -> "warning"
    [] frag = "WARNING" -> "warning"
    [] frag = "Good" -> "good"
    [] frag = "GOOD" -> "good"
    [] frag = "High" -> "high"
    [] OTHER -> frag

ToLowerCase(line) == [i \in 1..Len(line) |-> LowerFrag(line[i])]

\* String.prototype.includes, for a one-fragment needle
Includes(line, word) == \E i \in 1..Len(line) : line[i] = word

\* text.replace(prompt, ''): the first occurrence of the prompt's lines is removed
ReplacePrompt(text, prompt) ==
  LET n == Len(prompt)
      At(i) == i + n - 1 <= Len(text) /\ SubSeq(text, i, i + n - 1) = prompt
  IN IF n > 0 /\ \E i \in 1..Len(text) : At(i)
     THEN LET i == CHOOSE k \in 1..Len(text) : At(k) /\ \A j \in 1..(k - 1) : ~At(j)
          IN SubSeq(text, 1, i - 1) \o SubSeq(text, i + n, Len(text))
     ELSE text

(***************************************************************************)
(* SensorAIService: analyzeSensorConditions, createPrompt                  *)
(***************************************************************************)
RECURSIVE JoinComma(_)
JoinComma(items) ==
  IF Len(items) = 0 THEN ""
  ELSE IF Len(items) = 1 THEN items[1]
  ELSE items[1] \o ", " \o JoinComma(Tail(items))

analyzeSensorConditions(file, data) ==
  IF file = "nullable" /\ hasNullValues(data) THEN "sensor data unavailable"
  ELSE
    LET c1 == IF Num(data.soilMoisture) < T(30) THEN <<"critically dry soil">>
              ELSE IF Num(data.soilMoisture) < T(50) THEN <<"moderately dry soil">>
              ELSE IF Num(data.soilMoisture) > T(80) THEN <<"very wet soil">>
              ELSE <<>>
        c2 == IF Num(data.temperature) < T(10) THEN Append(c1, "cold temperature")
              ELSE IF Num(data.temperature) > T(30) THEN Append(c1, "hot temperature")
              ELSE c1
        c3 == IF Num(data.humidity) < T(40) THEN Append(c2, "low humidity")
              ELSE IF Num(data.humidity) > T(70) THEN Append(c2, "high humidity")
              ELSE c2
        c4 == PushIf(Num(data.waterLevel) < T(20), c3, "low water tank level")
        c5 == PushIf(Num(data.rain) > T(60), c4, "heavy rain detected")
        c6 == IF Num(data.light) < T(200) THEN Append(c5, "low light conditions")
              ELSE IF Num(data.light) > T(800) THEN Append(c5, "very bright conditions")
              ELSE c5
    IN IF JoinComma(c6) = "" THEN "optimal conditions" ELSE JoinComma(c6)

\* Number.prototype.toFixed(1) and toFixed(0) of a reading held in tenths
toFixed1(v) == ToString(v \div 10) \o "." \o ToString(v % 10)
toFixed0(v) == ToString((v + 5) \div 10)

\* formatValue of the nullable-aware file
formatValue(value, decimals) ==
  IF value = Null THEN "null"
  ELSE IF decimals = 0 THEN toFixed0(value) ELSE toFixed1(value)

\* the four format lines every prompt ends with
FormatLines ==
  << <<"PRIORITY:", " ", "[", "Critical", "/", "Warning", "/", "Good", "]">>,
     <<"TITLE:", " ", "[Brief descriptive title]">>,
     <<"ACTION:", " ", "[Specific action to take]">>,
     <<"REASON:", " ", "[Why this action is needed]">> >>

\* services/sensorAI.ts calls data.<field>.toFixed: a TypeError on a null reading
createPromptThrows(file, data) == file = "plain" /\ hasNullValues(data)

\* the prompt's lines (the degree sign of the temperature line is left out)
createPrompt(file, data) ==
  << <<"You are an expert agricultural advisor analyzing IoT sensor data. Based on the current readings:">>,
     <<>>,
     <<"Soil Moisture: ", formatValue(data.soilMoisture, 1), "%">>,
     <<"Temperature: ", formatValue(data.temperature, 1), "C", " ", " ">>,
     <<"Humidity: ", formatValue(data.humidity, 1), "%">>,
     <<"Water Tank: ", formatValue(data.waterLevel, 1), "%">>,
     <<"Rain: ", formatValue(data.rain, 1), "%">>,
     <<"Light: ", formatValue(data.light, 0), " lux">>,
     <<>>,
     <<"Current conditions: ", analyzeSensorConditions(file, data)>>,
     <<>>,
     <<"Provide specific, actionable advice in exactly this format:">> >>
  \o FormatLines \o
  << <<>>,
     <<"Focus on the most important issue. Be concise and practical.">> >>

(***************************************************************************)
(* SensorAIService.parseAIResponse                                         *)
(***************************************************************************)
\* response.split('\n').map(line => line.trim()).filter(line => line)
RECURSIVE TrimmedLines(_)
TrimmedLines(text) ==
  IF text = <<>> THEN <<>>
  ELSE LET line == Trim(Head(text)) IN
       IF Join(line) = "" THEN TrimmedLines(Tail(text))
       ELSE <<line>> \o TrimmedLines(Tail(text))

\* the loop body with a last else that takes an unlabelled line as the reason
parseLine_UnlabelledIsReason(acc, line) ==
  IF StartsWith(line, "PRIORITY:")
  THEN [acc EXCEPT !.priority = ToLowerCase(Trim(RemoveFirst(line, "PRIORITY:")))]
  ELSE IF StartsWith(line, "TITLE:")
  THEN [acc EXCEPT !.title = Trim(RemoveFirst(line, "TITLE:"))]
  ELSE IF StartsWith(line, "ACTION:")
  THEN [acc EXCEPT !.action = Trim(RemoveFirst(line, "ACTION:"))]
  ELSE IF StartsWith(line, "REASON:")
  THEN [acc EXCEPT !.reason = Trim(RemoveFirst(line, "REASON:"))]
  ELSE [acc EXCEPT !.reason = line]

\* one turn of the for loop over the lines
parseLine(acc, line) ==
  IF StartsWith(line, "PRIORITY:")
  THEN [acc EXCEPT !.priority = ToLowerCase(Trim(RemoveFirst(line, "PRIORITY:")))]
  ELSE IF StartsWith(line, "TITLE:")
  THEN [acc EXCEPT !.title = Trim(RemoveFirst(line, "TITLE:"))]
  ELSE IF StartsWith(line, "ACTION:")
  THEN [acc EXCEPT !.action = Trim(RemoveFirst(line, "ACTION:"))]
  ELSE IF StartsWith(line, "REASON:")
  THEN [acc EXCEPT !.reason = Trim(RemoveFirst(line, "REASON:"))]
  ELSE acc

RECURSIVE parseLines(_, _)
parseLines(acc, lines) ==
  IF lines = <<>> THEN acc
  ELSE parseLines(parseLine(acc, Head(lines)), Tail(lines))

\* the mapping with the two tests in the other order
mapPriority_WarningFirst(priority) ==
  IF Includes(priority, "warning") THEN "warning"
  ELSE IF Includes(priority, "critical") THEN "critical"
  ELSE "good"

\* the mapping of the priority text to a severity
mapPriority(priority) ==
  IF Includes(priority, "critical") THEN "critical"
  ELSE IF Includes(priority, "warning") THEN "warning"
  ELSE "good"

parseAIResponse(response, data) ==
  LET start == [priority |-> <<"good">>, title |-> <<"System Analysis">>,
                action |-> <<"Continue monitoring">>,
                reason |-> <<"Conditions are stable">>]
      parsed == parseLines(start, TrimmedLines(response))
  IN <<Advisory(mapPriority(parsed.priority), Join(parsed.title),
                Join(parsed.reason), Join(parsed.action), 85)>>

(***************************************************************************)
(* The external generator's outcomes and generateRecommendations           *)
(***************************************************************************)
\* a value of the field generated_text
GText(kind, text) == [kind |-> kind, text |-> text]

\* what the generator's promise settles with: it rejects, or resolves with an
\* array of outputs or with one output; an output is undefined or an object
GenRejects == [settle |-> "rejects", isArray |-> FALSE, outputs |-> <<>>]
GenArray(outputs) == [settle |-> "resolves", isArray |-> TRUE, outputs |-> outputs]
GenValue(output) == [settle |-> "resolves", isArray |-> FALSE, outputs |-> <<output>>]

Undefined == GText("undefined", <<>>)

\* the outcomes the model draws from, for a given prompt
GenOutcomes(prompt) ==
  { GenRejects,
    \* the prompt echoed, then the four labelled lines
    GenArray(<<GText("string", prompt \o
       << <<"PRIORITY:", " ", "Critical">>,
          <<" ", "TITLE:", " ", "Irrigate now", " ">>,
          <<"ACTION:", " ", "Open the valve">>,
          <<"REASON:", " ", "Soil is dry">> >>)>>),
    \* no echo, a priority line only, in capitals, among other lines
    GenValue(GText("string",
       << <<"Here is my advice">>, <<" ">>,
          <<"PRIORITY:", " ", "WARNING", " ", "level">> >>)),
    \* a priority word that is none of the three
    GenValue(GText("string", << <<"PRIORITY:", " ", "High">> >>)),
    \* the format lines of a prompt the replace does not remove
    GenArray(<<GText("string", <<<<"Answer:">>>> \o FormatLines)>>),
    \* an empty array, an object without generated_text, an empty text
    GenArray(<<>>),
    GenValue(Undefined),
    GenValue(GText("string", <<>>)),
    \* generated_text is a number: it has no replace method
    GenValue(GText("number", <<>>)) }

\* private generator: any = null
NoGenerator == "null"

\* the guard of generateRecommendations dropped
isReady_NoGuard(initialized, gen) == TRUE

\* !(!this.isInitialized || !this.generator)
isReady(initialized, gen) == initialized /\ gen # NoGenerator

\* String.prototype.trim on a whole text: blank lines at both ends go
RECURSIVE DropBlankHead(_)
DropBlankHead(text) ==
  IF text # <<>> /\ Join(Trim(Head(text))) = "" THEN DropBlankHead(Tail(text))
  ELSE text

RECURSIVE DropBlankLast(_)
DropBlankLast(text) ==
  IF text # <<>> /\ Join(Trim(text[Len(text)])) = ""
  THEN DropBlankLast(SubSeq(text, 1, Len(text) - 1))
  ELSE text

TrimText(text) ==
  LET t == DropBlankLast(DropBlankHead(text)) IN
  IF t = <<>> THEN t
  ELSE LET u == [t EXCEPT ![1] = TrimLeft(t[1])]
       IN [u EXCEPT ![Len(u)] = TrimRight(u[Len(u)])]

\* text: the cleaned response text that was parsed
Resolved(path, value) == [path |-> path, value |-> value, text |-> <<>>]

\* the try block of generateRecommendations with its catch removed: an error
\* in it rejects the returned promise
afterGenerator_NoCatch(file, data, outcome) ==
  IF outcome.settle = "rejects"
  THEN Resolved("threw", <<>>)
  ELSE
    LET output == IF outcome.outputs = <<>> THEN Undefined ELSE outcome.outputs[1]
    IN IF output.kind = "number"
       THEN Resolved("threw", <<>>)
       ELSE LET generatedText == IF output.kind = "string" THEN output.text ELSE <<>>
                cleanText == TrimText(ReplacePrompt(generatedText, createPrompt(file, data)))
            IN [Resolved("ai-parsed", parseAIResponse(cleanText, data))
                  EXCEPT !.text = cleanText]

\* generateRecommendations from the settling of the generator's promise on:
\* what its own promise resolves with
afterGenerator(file, data, outcome) ==
  IF outcome.settle = "rejects"
  THEN Resolved("ai-rejected", serviceFallback(file, data))
  ELSE
    LET output == IF outcome.outputs = <<>> THEN Undefined ELSE outcome.outputs[1]
    IN IF output.kind = "number"
       THEN Resolved("ai-malformed", serviceFallback(file, data))
       ELSE LET generatedText == IF output.kind = "string" THEN output.text ELSE <<>>
                cleanText == TrimText(ReplacePrompt(generatedText, createPrompt(file, data)))
            IN [Resolved("ai-parsed", parseAIResponse(cleanText, data))
                  EXCEPT !.text = cleanText]

(***************************************************************************)
(* ManualInputPanel: parseFloat(value) || 0, and the inputs' constraints   *)
(***************************************************************************)
IsDigit(ch) == ch \in {"0", "1", "2", "3", "4", "5", "6", "7", "8", "9"}

DigitValue(ch) ==
  CASE ch = "0" -> 0 [] ch = "1" -> 1 [] ch = "2" -> 2 [] ch = "3" -> 3
    [] ch = "4" -> 4 [] ch = "5" -> 5 [] ch = "6" -> 6 [] ch = "7" -> 7
    [] ch = "8" -> 8 [] ch = "9" -> 9

\* the longest prefix of digits
RECURSIVE DigitsPrefix(_)
DigitsPrefix(chars) ==
  IF chars # <<>> /\ IsDigit(Head(chars))
  THEN <<Head(chars)>> \o DigitsPrefix(Tail(chars))
  ELSE <<>>

RECURSIVE NumberOf(_)
NumberOf(digits) ==
  IF digits = <<>> THEN 0
  ELSE NumberOf(SubSeq(digits, 1, Len(digits) - 1)) * 10 + DigitValue(digits[Len(digits)])

\* parseFloat: leading blanks, a sign, digits, a point and digits; NaN when
\* there is no digit.  The value is in tenths (one decimal is kept)
parseFloat(chars) ==
  LET t == TrimLeft(chars)
      negative == t # <<>> /\ Head(t) = "-"
      u == IF t # <<>> /\ Head(t) \in {"-", "+"} THEN Tail(t) ELSE t
      int == DigitsPrefix(u)
      rest == SubSeq(u, Len(int) + 1, Len(u))
      frac == IF rest # <<>> /\ Head(rest) = "." THEN DigitsPrefix(Tail(rest)) ELSE <<>>
      tenths == NumberOf(int) * 10 + (IF frac = <<>> THEN 0 ELSE DigitValue(frac[1]))
  IN IF int = <<>> /\ frac = <<>> THEN [nan |-> TRUE, value |-> 0]
     ELSE [nan |-> FALSE, value |-> IF negative THEN 0 - tenths ELSE tenths]

\* parseFloat(value) || 0
parseFloatOrZero(chars) ==
  LET r == parseFloat(chars) IN IF r.nan \/ r.value = 0 THEN 0 ELSE r.value

\* the min, max and step attributes of the six inputs, in tenths
inputRange ==
  [soilMoisture |-> [min |-> T(0), max |-> T(100), step |-> 1],
   temperature |-> [min |-> 0 - T(50), max |-> T(80), step |-> 1],
   humidity |-> [min |-> T(0), max |-> T(100), step |-> 1],
   waterLevel |-> [min |-> T(0), max |-> T(100), step |-> 1],
   rain |-> [min |-> T(0), max |-> T(100), step |-> 1],
   light |-> [min |-> T(0), max |-> T(100000), step |-> T(1)]]

\* the browser's validation of the form, which precedes the submit event
formIsValid(form) ==
  \A f \in Fields :
    /\ form[f] >= inputRange[f].min
    /\ form[f] <= inputRange[f].max
    /\ (form[f] - inputRange[f].min) % inputRange[f].step = 0

(***************************************************************************)
(* Bounds and input sets                                                   *)
(***************************************************************************)
\* generation calls in flight at once
MaxInFlight == 2

\* runs of the panel's initializeAI effect (React may run a mount effect again)
MaxInitCalls == 2

InitCallers == 1..MaxInitCalls

DataSources == {"arduino", "simulated", "manual"}

\* draws of generateSimulatedData: soil, water, rain in 0..100, temperature in
\* 15..40, humidity in 30..80, light in 0..1000
SimSnapshots ==
  { InitialSensorData,
    Snapshot(100, 380, 500, 100, 900, 500) }

\* what the dashboard's user types into the manual form: the field, and the
\* input's text, character by character
DashInputs == {<<"soilMoisture", <<"2", "5">> >>}

(***************************************************************************)
(* State                                                                   *)
(***************************************************************************)
VARIABLES
  \* Index
  dataSource, isConnected, selectedRegion, sensorData,
  formData,        \* the manual form's state
  editedFields,    \* the fields of the form the user has changed
  cardStatus,      \* the status prop of the six sensor cards, as last rendered
  indexEffects,    \* the effects of Index whose dependencies changed
  timer,           \* the data source the running interval captured, or "off"
  \* RecommendationsPanel
  aiRecommendations, isLoadingAI, isAIInitialized, useAI,
  recEffect,       \* the recommendation effect's dependencies changed
  effectRan,       \* the recommendation effect has run at least once
  calls,           \* generation calls awaiting the generator, oldest first
  shown,           \* the computation whose result aiRecommendations holds
  suitablePlants,
  plantsShown,     \* the computation whose result suitablePlants holds
  \* SensorAIService
  file,            \* which of the two files of the service is deployed
  generator, isInitializing, isInitialized,
  initCalls        \* each initializeAI run: where it is and how its load ended

formVars == <<formData, editedFields>>
indexVars == <<dataSource, isConnected, selectedRegion, sensorData, cardStatus,
               indexEffects, timer, formVars>>
panelVars == <<aiRecommendations, isLoadingAI, isAIInitialized, useAI, recEffect,
               effectRan, calls, shown, suitablePlants, plantsShown>>
serviceVars == <<file, generator, isInitializing, isInitialized, initCalls>>
vars == <<indexVars, panelVars, serviceVars>>

\* text: the response text a parsed list was parsed from
Shown(path, data) == [path |-> path, data |-> data, text |-> <<>>]

Init ==
  /\ dataSource = "simulated"
  /\ isConnected = FALSE
  /\ selectedRegion = "temperate"
  /\ sensorData = InitialSensorData
  /\ cardStatus = renderStatus(InitialSensorData, "temperate")
  /\ indexEffects = {}
  /\ timer = "off"
  /\ formData = InitialSensorData
  /\ editedFields = {}
  /\ aiRecommendations = <<>>
  /\ isLoadingAI = FALSE
  /\ isAIInitialized = FALSE
  /\ useAI = FALSE
  /\ recEffect = TRUE
  /\ effectRan = FALSE
  /\ calls = <<>>
  /\ shown = Shown("none", InitialSensorData)
  /\ suitablePlants = <<>>
  /\ plantsShown = Shown("none", InitialSensorData)
  /\ file \in ServiceFiles
  /\ generator = NoGenerator
  /\ isInitializing = FALSE
  /\ isInitialized = FALSE
  /\ initCalls = [c \in InitCallers |-> [pc |-> "idle", load |-> "none"]]

(***************************************************************************)
(* Index                                                                   *)
(***************************************************************************)
\* React runs the effects a render left pending before it handles the next
\* user event: a click handler starts with no effect pending
NoPendingEffects == indexEffects = {} /\ ~recEffect

\* setSensorData(data) and the render that follows it
setSensorData(data) ==
  /\ sensorData' = data
  /\ cardStatus' = renderStatus(data, selectedRegion)
  /\ recEffect' = TRUE

handleDataSourceChange(source) ==
  /\ NoPendingEffects
  /\ source # dataSource
  /\ dataSource' = source
  /\ indexEffects' = {"timer", "source"}
  /\ UNCHANGED <<isConnected, selectedRegion, sensorData, cardStatus, timer, formVars>>
  /\ UNCHANGED <<panelVars, serviceVars>>

handleToggleConnection ==
  /\ NoPendingEffects
  /\ isConnected' = ~isConnected
  /\ indexEffects' = indexEffects \cup {"timer"}
  /\ UNCHANGED <<dataSource, selectedRegion, sensorData, cardStatus, timer, formVars>>
  /\ UNCHANGED <<panelVars, serviceVars>>

\* the effects of Index that follow a render: the interval is cleared and set
\* again, and the arduino effect empties the snapshot
IndexEffects ==
  /\ indexEffects # {}
  /\ indexEffects' = {}
  /\ timer' = IF isConnected THEN dataSource ELSE "off"
  /\ IF "source" \in indexEffects /\ dataSource = "arduino"
     THEN setSensorData(NullSnapshot)
     ELSE UNCHANGED <<sensorData, cardStatus, recEffect>>
  /\ UNCHANGED <<dataSource, isConnected, selectedRegion, formVars>>
  /\ UNCHANGED <<aiRecommendations, isLoadingAI, isAIInitialized, useAI,
                 effectRan, calls, shown, suitablePlants, plantsShown>>
  /\ UNCHANGED serviceVars

\* the interval's callback, with the data source its closure captured
TimerTick ==
  /\ timer \in {"simulated", "arduino"}
  /\ IF timer = "simulated"
     THEN \E data \in SimSnapshots : setSensorData(data)
     ELSE setSensorData(NullSnapshot)
  /\ UNCHANGED <<dataSource, isConnected, selectedRegion, indexEffects, timer,
                 formVars>>
  /\ UNCHANGED <<aiRecommendations, isLoadingAI, isAIInitialized, useAI,
                 effectRan, calls, shown, suitablePlants, plantsShown>>
  /\ UNCHANGED serviceVars

\* the Run Simulation button, shown in simulated mode
handleRunSimulation ==
  /\ NoPendingEffects
  /\ dataSource = "simulated"
  /\ \E data \in SimSnapshots : setSensorData(data)
  /\ UNCHANGED <<dataSource, isConnected, selectedRegion, indexEffects, timer,
                 formVars>>
  /\ UNCHANGED <<aiRecommendations, isLoadingAI, isAIInitialized, useAI,
                 effectRan, calls, shown, suitablePlants, plantsShown>>
  /\ UNCHANGED serviceVars

\* the manual form's submit, shown in manual mode
handleManualDataUpdate(newData) ==
  /\ NoPendingEffects
  /\ dataSource = "manual"
  /\ setSensorData(newData)
  /\ UNCHANGED <<dataSource, isConnected, selectedRegion, indexEffects, timer,
                 formVars>>
  /\ UNCHANGED <<aiRecommendations, isLoadingAI, isAIInitialized, useAI,
                 effectRan, calls, shown, suitablePlants, plantsShown>>
  /\ UNCHANGED serviceVars

\* the input handler passing each edit on to Index (onDataUpdate in onChange)
handleInputChange_WriteThrough(field, value) ==
  /\ NoPendingEffects
  /\ dataSource = "manual"
  /\ formData' = [formData EXCEPT ![field] = parseFloatOrZero(value)]
  /\ editedFields' = editedFields \cup {field}
  /\ setSensorData([sensorData EXCEPT ![field] = parseFloatOrZero(value)])
  /\ UNCHANGED <<dataSource, isConnected, selectedRegion, indexEffects, timer>>
  /\ UNCHANGED <<aiRecommendations, isLoadingAI, isAIInitialized, useAI,
                 effectRan, calls, shown, suitablePlants, plantsShown>>
  /\ UNCHANGED serviceVars

\* the form's inputs, shown in manual mode: one field of the form's own state
\* is set; nothing is passed to Index
handleInputChange(field, value) ==
  /\ NoPendingEffects
  /\ dataSource = "manual"
  /\ formData' = [formData EXCEPT ![field] = parseFloatOrZero(value)]
  /\ editedFields' = editedFields \cup {field}
  /\ UNCHANGED <<dataSource, isConnected, selectedRegion, sensorData, cardStatus,
                 indexEffects, timer>>
  /\ UNCHANGED <<panelVars, serviceVars>>

\* the form's submit button: onDataUpdate(formData)
handleSubmit ==
  /\ formIsValid(formData)
  /\ handleManualDataUpdate(formData)

setSelectedRegion(key) ==
  /\ NoPendingEffects
  /\ key # selectedRegion
  /\ selectedRegion' = key
  /\ cardStatus' = renderStatus(sensorData, key)
  /\ UNCHANGED <<dataSource, isConnected, sensorData, indexEffects, timer, formVars>>
  /\ UNCHANGED <<panelVars, serviceVars>>

(***************************************************************************)
(* SensorAIService.initialize, called by the panel's initializeAI effect   *)
(***************************************************************************)
\* initialize() up to its await: an early return, or the load starts
initialize(c) ==
  /\ initCalls[c].pc = "idle"
  /\ IF isInitialized \/ isInitializing
     THEN /\ initCalls' = [initCalls EXCEPT ![c] = [pc |-> "returned", load |-> "noop"]]
          /\ UNCHANGED isInitializing
     ELSE /\ initCalls' = [initCalls EXCEPT ![c] = [pc |-> "loading", load |-> "none"]]
          /\ isInitializing' = TRUE
  /\ UNCHANGED <<file, generator, isInitialized>>

\* a run of initializeAI, which calls initialize()
InitializeAI(c) ==
  /\ \A b \in InitCallers : b < c => initCalls[b].pc # "idle"
  /\ initialize(c)
  /\ UNCHANGED <<indexVars, panelVars>>

\* the pipeline's promise resolves: the rest of the try block, then finally
PipelineResolves(c) ==
  /\ initCalls[c].pc = "loading"
  /\ generator' = "pipeline"
  /\ isInitialized' = TRUE
  /\ isInitializing' = FALSE
  /\ initCalls' = [initCalls EXCEPT ![c] = [pc |-> "returned", load |-> "ok"]]
  /\ UNCHANGED file
  /\ UNCHANGED <<indexVars, panelVars>>

\* the rejection handled without the finally block: isInitializing stays set
PipelineRejects_NoFinally(c) ==
  /\ initCalls[c].pc = "loading"
  /\ isInitialized' = FALSE
  /\ initCalls' = [initCalls EXCEPT ![c] = [pc |-> "returned", load |-> "failed"]]
  /\ UNCHANGED <<file, generator, isInitializing>>
  /\ UNCHANGED <<indexVars, panelVars>>

\* the pipeline's promise rejects: the catch block, then finally
PipelineRejects(c) ==
  /\ initCalls[c].pc = "loading"
  /\ isInitialized' = FALSE
  /\ isInitializing' = FALSE
  /\ initCalls' = [initCalls EXCEPT ![c] = [pc |-> "returned", load |-> "failed"]]
  /\ UNCHANGED <<file, generator>>
  /\ UNCHANGED <<indexVars, panelVars>>

\* initializeAI after its await: setIsAIInitialized(true)
InitializeAIContinues(c) ==
  /\ initCalls[c].pc = "returned"
  /\ initCalls' = [initCalls EXCEPT ![c].pc = "done"]
  /\ isAIInitialized' = TRUE
  /\ recEffect' = (recEffect \/ ~isAIInitialized)
  /\ UNCHANGED <<aiRecommendations, isLoadingAI, useAI, effectRan, calls, shown,
                 suitablePlants, plantsShown>>
  /\ UNCHANGED <<file, generator, isInitializing, isInitialized>>
  /\ UNCHANGED indexVars

(***************************************************************************)
(* RecommendationsPanel                                                    *)
(***************************************************************************)
\* the mode button, disabled until isAIInitialized
ToggleUseAI ==
  /\ NoPendingEffects
  /\ isAIInitialized
  /\ useAI' = ~useAI
  /\ recEffect' = TRUE
  /\ UNCHANGED <<aiRecommendations, isLoadingAI, isAIInitialized, effectRan,
                 calls, shown, suitablePlants, plantsShown>>
  /\ UNCHANGED <<indexVars, serviceVars>>

\* generateAIRecommendations with the snapshot of the render it closes over, up
\* to the generator's call; when generateRecommendations returns without
\* awaiting the generator (its guard, or an error caught before the call), the
\* rest of generateAIRecommendations follows at once
generateAIRecommendations(data) ==
  IF ~isReady(isInitialized, generator)
  THEN /\ aiRecommendations' = serviceFallback(file, data)
       /\ shown' = Shown("ai-notready", data)
       /\ isLoadingAI' = FALSE
       /\ UNCHANGED calls
  ELSE IF createPromptThrows(file, data)
  THEN /\ aiRecommendations' = serviceFallback(file, data)
       /\ shown' = Shown("ai-prompt", data)
       /\ isLoadingAI' = FALSE
       /\ UNCHANGED calls
  ELSE /\ Len(calls) < MaxInFlight
       /\ calls' = Append(calls, data)
       /\ isLoadingAI' = TRUE
       /\ UNCHANGED <<aiRecommendations, shown>>

\* getSuitablePlants has no await of its own: its promise resolves, and the
\* list is set, before any other callback runs
generatePlantRecommendations(data) ==
  /\ suitablePlants' = servicePlants(file, data)
  /\ plantsShown' = Shown("service", data)

\* the body of the effect on [sensorData, useAI, isAIInitialized]
recommendationEffect ==
  /\ recEffect
  /\ recEffect' = FALSE
  /\ effectRan' = TRUE
  /\ IF useAI /\ isAIInitialized
     THEN generateAIRecommendations(sensorData)
     ELSE /\ aiRecommendations' = panelFallback(sensorData)
          /\ shown' = Shown("basic", sensorData)
          /\ UNCHANGED <<isLoadingAI, calls>>
  /\ generatePlantRecommendations(sensorData)
  /\ UNCHANGED <<isAIInitialized, useAI>>

\* the panel mounts: its two effects run, initializeAI up to its await and then
\* the recommendation effect
Mount ==
  /\ ~effectRan
  /\ initialize(1)
  /\ recommendationEffect
  /\ UNCHANGED indexVars

\* the recommendation effect after a later render
RecommendationEffect ==
  /\ effectRan
  /\ recommendationEffect
  /\ UNCHANGED <<indexVars, serviceVars>>

RemoveAt(q, i) == SubSeq(q, 1, i - 1) \o SubSeq(q, i + 1, Len(q))

\* the generator's promise of call i settles: generateRecommendations finishes,
\* then generateAIRecommendations (its try or catch, then finally)
GeneratorSettles(i, outcome) ==
  /\ i \in 1..Len(calls)
  /\ LET data == calls[i]
         r == afterGenerator(file, data, outcome)
     IN IF r.path = "threw"
        THEN /\ aiRecommendations' = panelFallback(data)
             /\ shown' = Shown("ai-threw", data)
        ELSE /\ aiRecommendations' = r.value
             /\ shown' = [Shown(r.path, data) EXCEPT !.text = r.text]
  /\ isLoadingAI' = FALSE
  /\ calls' = RemoveAt(calls, i)
  /\ UNCHANGED <<isAIInitialized, useAI, recEffect, effectRan,
                 suitablePlants, plantsShown>>
  /\ UNCHANGED <<indexVars, serviceVars>>

(***************************************************************************)
(* The dashboard: Index, the panel mounted once, and the service           *)
(***************************************************************************)
\* the generator outcomes the dashboard draws from
DashOutcomes(prompt) ==
  { GenRejects,
    GenArray(<<GText("string", prompt \o
       << <<"PRIORITY:", " ", "Warning">>,
          <<"TITLE:", " ", "Check the tank">> >>)>>),
    GenValue(Undefined) }

\* a generation call of the dashboard settles
DashGeneratorSettles ==
  \E i \in DOMAIN calls :
    \E outcome \in DashOutcomes(createPrompt(file, calls[i])) :
      GeneratorSettles(i, outcome)

Next ==
  \/ \E source \in DataSources : handleDataSourceChange(source)
  \/ Mount
  \/ handleToggleConnection
  \/ IndexEffects
  \/ TimerTick
  \/ handleRunSimulation
  \/ \E input \in DashInputs : handleInputChange(input[1], input[2])
  \/ handleSubmit
  \/ PipelineResolves(1)
  \/ PipelineRejects(1)
  \/ InitializeAIContinues(1)
  \/ ToggleUseAI
  \/ RecommendationEffect
  \/ DashGeneratorSettles

Spec == Init /\ [][Next]_vars

(***************************************************************************)
(* The service alone, driven by any callers: runs of initialize() and      *)
(* calls of generateRecommendations with any snapshot, in any order        *)
(***************************************************************************)
ServiceSnapshots ==
  { InitialSensorData,
    NullSnapshot,
    [InitialSensorData EXCEPT !.rain = Null],
    Snapshot(100, 380, 500, 100, 900, 500) }

\* a caller's generateAIRecommendations
GenerateCall(data) ==
  /\ generateAIRecommendations(data)
  /\ UNCHANGED <<isAIInitialized, useAI, recEffect, effectRan,
                 suitablePlants, plantsShown>>
  /\ UNCHANGED <<indexVars, serviceVars>>

\* a generation call settles, in any of the ways a generator's promise can
AnyGeneratorSettles ==
  \E i \in DOMAIN calls :
    \E outcome \in GenOutcomes(createPrompt(file, calls[i])) :
      GeneratorSettles(i, outcome)

NextService ==
  \/ \E c \in InitCallers : InitializeAI(c)
  \/ \E c \in InitCallers : PipelineResolves(c)
  \/ \E c \in InitCallers : PipelineRejects(c)
  \/ \E c \in InitCallers : InitializeAIContinues(c)
  \/ \E data \in ServiceSnapshots : GenerateCall(data)
  \/ AnyGeneratorSettles

SpecService == Init /\ [][NextService]_vars

(***************************************************************************)
(* The rule tables alone: the classifier and the three rule-based          *)
(* recommenders applied to snapshots drawn from a grid around the cutoffs  *)
(***************************************************************************)
RuleSnapshots ==
  [soilMoisture : {Null, 0, 199, 200, 299, 300, 499, 500, 654, 901},
   temperature : {Null, 49, 50, 99, 100, 248, 351, 401},
   humidity : {Null, 582},
   waterLevel : {Null, 199, 200, 399, 789},
   rain : {Null, 123, 801},
   light : {Null, 999, 1000, 1999, 2000, 2999, 3000, 4500}]

InitRules ==
  /\ sensorData \in RuleSnapshots
  /\ selectedRegion = "temperate"
  /\ cardStatus = renderStatus(sensorData, selectedRegion)
  /\ file \in ServiceFiles
  /\ dataSource = "manual"
  /\ isConnected = FALSE
  /\ indexEffects = {}
  /\ timer = "off"
  /\ formData = InitialSensorData
  /\ editedFields = {}
  /\ aiRecommendations = <<>>
  /\ isLoadingAI = FALSE
  /\ isAIInitialized = FALSE
  /\ useAI = FALSE
  /\ recEffect = FALSE
  /\ effectRan = FALSE
  /\ calls = <<>>
  /\ shown = Shown("none", sensorData)
  /\ suitablePlants = <<>>
  /\ plantsShown = Shown("none", sensorData)
  /\ generator = NoGenerator
  /\ isInitializing = FALSE
  /\ isInitialized = FALSE
  /\ initCalls = [c \in InitCallers |-> [pc |-> "idle", load |-> "none"]]

\* the service's getFallbackRecommendations applied to the snapshot
ServiceRecommend ==
  /\ shown.path = "none"
  /\ aiRecommendations' = serviceFallback(file, sensorData)
  /\ shown' = Shown("service", sensorData)
  /\ UNCHANGED <<isLoadingAI, isAIInitialized, useAI, recEffect, effectRan, calls,
                 suitablePlants, plantsShown>>
  /\ UNCHANGED <<indexVars, serviceVars>>

\* the panel's getFallbackRecommendations applied to the snapshot
PanelRecommend ==
  /\ shown.path = "none"
  /\ aiRecommendations' = panelFallback(sensorData)
  /\ shown' = Shown("basic", sensorData)
  /\ UNCHANGED <<isLoadingAI, isAIInitialized, useAI, recEffect, effectRan, calls,
                 suitablePlants, plantsShown>>
  /\ UNCHANGED <<indexVars, serviceVars>>

NextRules ==
  \/ \E key \in Regions : setSelectedRegion(key)
  \/ ServiceRecommend
  \/ PanelRecommend

SpecRules == InitRules /\ [][NextRules]_vars

(***************************************************************************)
(* The classifier alone: the sensor cards of every snapshot of a grid      *)
(* around the cutoffs of water level, rain and light, in every region      *)
(***************************************************************************)
StatusSnapshots ==
  [soilMoisture : {Null, 654},
   temperature : {248},
   humidity : {582},
   waterLevel : {Null, 199, 200, 399, 400, 789},
   rain : {Null, 123, 700, 701, 750, 800, 801},
   light : {Null, 999, 1000, 1999, 2000, 2500, 2999, 3000, 4500}]

InitStatus ==
  /\ sensorData \in StatusSnapshots
  /\ selectedRegion = "temperate"
  /\ cardStatus = renderStatus(sensorData, selectedRegion)
  /\ file \in ServiceFiles
  /\ dataSource = "manual"
  /\ isConnected = FALSE
  /\ indexEffects = {}
  /\ timer = "off"
  /\ formData = InitialSensorData
  /\ editedFields = {}
  /\ aiRecommendations = <<>>
  /\ isLoadingAI = FALSE
  /\ isAIInitialized = FALSE
  /\ useAI = FALSE
  /\ recEffect = FALSE
  /\ effectRan = FALSE
  /\ calls = <<>>
  /\ shown = Shown("none", sensorData)
  /\ suitablePlants = <<>>
  /\ plantsShown = Shown("none", sensorData)
  /\ generator = NoGenerator
  /\ isInitializing = FALSE
  /\ isInitialized = FALSE
  /\ initCalls = [c \in InitCallers |-> [pc |-> "idle", load |-> "none"]]

SelectRegion == \E key \in Regions : setSelectedRegion(key)

NextStatus == SelectRegion

SpecStatus == InitStatus /\ [][NextStatus]_vars

(***************************************************************************)
(* The plant lists alone: getSuitablePlants of the service and of the      *)
(* panel's basic variant applied to snapshots of a grid around the cutoffs *)
(***************************************************************************)
PlantSnapshots ==
  [soilMoisture : {Null, 390, 400, 500, 501, 700, 701},
   temperature : {Null, 100, 150, 200, 249, 250, 300, 301},
   humidity : {Null, 500, 600, 601, 700, 701},
   waterLevel : {Null, 789},
   rain : {Null, 123},
   light : {Null, 1000, 2000, 2001, 4000, 4001, 5000, 5001, 8000, 8001}]

InitPlants ==
  /\ sensorData \in PlantSnapshots
  /\ selectedRegion = "temperate"
  /\ cardStatus = renderStatus(sensorData, selectedRegion)
  /\ file \in ServiceFiles
  /\ dataSource = "manual"
  /\ isConnected = FALSE
  /\ indexEffects = {}
  /\ timer = "off"
  /\ formData = InitialSensorData
  /\ editedFields = {}
  /\ aiRecommendations = <<>>
  /\ isLoadingAI = FALSE
  /\ isAIInitialized = FALSE
  /\ useAI = FALSE
  /\ recEffect = FALSE
  /\ effectRan = FALSE
  /\ calls = <<>>
  /\ shown = Shown("none", sensorData)
  /\ suitablePlants = <<>>
  /\ plantsShown = Shown("none", sensorData)
  /\ generator = NoGenerator
  /\ isInitializing = FALSE
  /\ isInitialized = FALSE
  /\ initCalls = [c \in InitCallers |-> [pc |-> "idle", load |-> "none"]]

\* the service's getSuitablePlants applied to the snapshot
ServicePlants ==
  /\ plantsShown.path = "none"
  /\ generatePlantRecommendations(sensorData)
  /\ UNCHANGED <<aiRecommendations, isLoadingAI, isAIInitialized, useAI, recEffect,
                 effectRan, calls, shown>>
  /\ UNCHANGED <<indexVars, serviceVars>>

\* the basic variant's getSuitablePlants applied to the snapshot
BasicPlants ==
  /\ plantsShown.path = "none"
  /\ suitablePlants' = getSuitablePlantsBasic(sensorData)
  /\ plantsShown' = Shown("basic", sensorData)
  /\ UNCHANGED <<aiRecommendations, isLoadingAI, isAIInitialized, useAI, recEffect,
                 effectRan, calls, shown>>
  /\ UNCHANGED <<indexVars, serviceVars>>

NextPlants ==
  \/ ServicePlants
  \/ BasicPlants

SpecPlants == InitPlants /\ [][NextPlants]_vars

(***************************************************************************)
(* The snapshot and the manual form: Index with the form edited freely;    *)
(* the panel stays in Basic mode (the model load is still in flight)       *)
(***************************************************************************)
FormFields == {"soilMoisture", "temperature", "light"}

\* the input's text: empty, 25, 12.5, 150
FormTexts ==
  { <<>>, <<"2", "5">>, <<"1", "2", ".", "5">>, <<"1", "5", "0">> }

EditForm == \E field \in FormFields, value \in FormTexts : handleInputChange(field, value)

NextForm ==
  \/ \E source \in DataSources : handleDataSourceChange(source)
  \/ Mount
  \/ handleToggleConnection
  \/ IndexEffects
  \/ TimerTick
  \/ handleRunSimulation
  \/ EditForm
  \/ handleSubmit
  \/ RecommendationEffect

SpecForm == Init /\ [][NextForm]_vars

(***************************************************************************)
(* Properties                                                              *)
(***************************************************************************)
Severities == {"good", "warning", "critical"}

\* the recommendation computation has settled: no effect is pending and no
\* generation call is in flight
Settled == effectRan /\ ~recEffect /\ indexEffects = {} /\ calls = <<>>

\* the capability state Ready: the load succeeded
Ready ==
  /\ isInitialized
  /\ generator # NoGenerator
  /\ ~isInitializing
  /\ \E c \in InitCallers : initCalls[c].load = "ok"

\* C1: for each of the six fields and each selected region, the status of an
\* absent reading is critical.
C1_AbsentIsCritical ==
  \A f \in Fields : sensorData[f] = Null => cardStatus[f] = "critical"

C1_Witness ==
  /\ sensorData.rain = Null
  /\ sensorData.light # Null
  /\ selectedRegion = "arid"
  /\ cardStatus.rain = "critical"

\* C2: for a snapshot with at least one absent field, the service's rule-based
\* getFallbackRecommendations returns exactly the one critical no-data advisory,
\* whatever the other fields hold.
C2_AbsentYieldsNoData ==
  (shown.path = "service" /\ hasNullValues(sensorData))
    => aiRecommendations = <<NoSensorData>>

\* C3: once the computation has settled on a snapshot with an absent field, the
\* list the panel shows is the single critical no-data advisory.
C3_ShownNoDataWhenAbsent ==
  (Settled /\ hasNullValues(sensorData))
    => aiRecommendations = <<NoSensorData>>

\* C4: the list of the rule-based path (the service's fallback, the panel's
\* Basic-mode list) has at least 1 and at most 3 advisories; stated here for the
\* snapshots with no absent field, where it does not rest on how null compares.
C4_RuleBasedLength ==
  (shown.path \in {"service", "basic"} /\ ~hasNullValues(sensorData))
    => (Len(aiRecommendations) >= 1 /\ Len(aiRecommendations) <= 3)

\* C5: when the generator's call fails for a snapshot, the resulting list is the
\* list the deterministic path (Basic mode) produces for that snapshot.
C5_FailureEqualsDeterministic ==
  shown.path = "ai-rejected" => aiRecommendations = panelFallback(shown.data)

\* C6: once nothing is in flight, the list shown is the result of the latest
\* triggered computation: it was computed for the current snapshot, on the path
\* of the current mode.
C6_LatestComputationShown ==
  Settled =>
    /\ shown.data = sensorData
    /\ (shown.path = "basic") <=> ~(useAI /\ isAIInitialized)

\* C7: once the recommendation effect has run, the list shown is never empty,
\* also while a generation call is pending and after one has failed.
C7_ShownNeverEmpty == effectRan => aiRecommendations # <<>>

C7_Witness ==
  /\ effectRan
  /\ calls # <<>>
  /\ shown.path = "ai-rejected"

\* C8: the generator is invoked only in the state Ready; in every other state a
\* call of generateRecommendations invokes nothing and returns the rule-based
\* fallback of its snapshot.
C8_GeneratorOnlyWhenReady ==
  /\ [](calls # <<>> => Ready)
  /\ [][ /\ Len(calls') > Len(calls) => Ready
         /\ (~Ready /\ shown' # shown) =>
              /\ calls' = calls
              /\ shown'.path = "ai-notready"
              /\ aiRecommendations' = serviceFallback(file, shown'.data) ]_vars

C8_Witness ==
  /\ calls # <<>>
  /\ shown.path = "ai-notready"
  /\ \E c \in InitCallers : initCalls[c].load = "failed"

\* C9: the panel shows the AI capability as available only if the service's
\* model load succeeded.
C9_AvailableOnlyIfLoaded == isAIInitialized => isInitialized

\* C10: whatever the generator does, generateRecommendations resolves, never
\* rejects, with a non-empty list whose severities are good, warning or critical.
C10_AlwaysResolvesValid ==
  /\ shown.path # "ai-threw"
  /\ shown.path \in {"ai-notready", "ai-prompt", "ai-rejected", "ai-malformed", "ai-parsed"}
       => /\ aiRecommendations # <<>>
          /\ \A i \in DOMAIN aiRecommendations :
               aiRecommendations[i].type \in Severities

C10_Witness ==
  /\ shown.path = "ai-parsed"
  /\ aiRecommendations[1].type = "critical"
  /\ aiRecommendations[1].title = "[Brief descriptive title]"

\* C11 as stated: the status of a field is a function of the field, its value
\* and its absence alone: with the snapshot unchanged, selecting another
\* region changes no card's status
C11_RegionIndependent ==
  [][sensorData' = sensorData => cardStatus' = cardStatus]_vars

\* the fields whose cutoffs getSensorStatus does not read from the region
RegionFreeFields == {"waterLevel", "rain", "light"}

\* C11 amended: with the snapshot unchanged, selecting another region changes
\* the status of no absent field and of none of water level, rain and light
C11_RegionIndependentFields ==
  [][sensorData' = sensorData =>
       \A f \in Fields :
         (f \in RegionFreeFields \/ sensorData[f] = Null)
           => cardStatus'[f] = cardStatus[f]]_vars

C11_Witness ==
  /\ selectedRegion = "arid"
  /\ sensorData.waterLevel = 399 /\ cardStatus.waterLevel = "warning"
  /\ sensorData.soilMoisture = 654 /\ cardStatus.soilMoisture = "warning"
  /\ sensorData.rain = Null /\ cardStatus.rain = "critical"

\* C12: a present water level below 20 is critical, from 20 and below 40
\* warning, from 40 good, in every region
C12_WaterLevelBands ==
  sensorData.waterLevel # Null =>
    cardStatus.waterLevel =
      (IF sensorData.waterLevel < 200 THEN "critical"
       ELSE IF sensorData.waterLevel < 400 THEN "warning" ELSE "good")

C12_Witness ==
  /\ sensorData.waterLevel = 400 /\ cardStatus.waterLevel = "good"
  /\ selectedRegion = "tropical"

\* C13 as stated: a present light level below 100 is critical, from 100 and
\* below 200 warning, from 200 good
C13_LightBands ==
  sensorData.light # Null =>
    cardStatus.light =
      (IF sensorData.light < 1000 THEN "critical"
       ELSE IF sensorData.light < 2000 THEN "warning" ELSE "good")

\* C13 amended: a present light level below 100 is critical, from 100 and
\* below 300 warning, from 300 good
C13_LightBandsAt300 ==
  sensorData.light # Null =>
    cardStatus.light =
      (IF sensorData.light < 1000 THEN "critical"
       ELSE IF sensorData.light < 3000 THEN "warning" ELSE "good")

C13_Witness ==
  /\ sensorData.light = 2500 /\ cardStatus.light = "warning"
  /\ selectedRegion = "arid"

\* C14 as stated: a present rain level is never critical; above 70 it is
\* warning, up to 70 good
C14_RainBands ==
  sensorData.rain # Null =>
    cardStatus.rain = (IF sensorData.rain > 700 THEN "warning" ELSE "good")

\* C14 amended: a present rain level is never critical; above 80 it is
\* warning, up to 80 good
C14_RainBandsAt80 ==
  sensorData.rain # Null =>
    cardStatus.rain = (IF sensorData.rain > 800 THEN "warning" ELSE "good")

C14_Witness ==
  /\ sensorData.rain = 750 /\ cardStatus.rain = "good"
  /\ selectedRegion = "tropical"

\* the field an advisory is about, as a rank in the priority order soil
\* moisture, water level, temperature, light (0: about no field)
priorityRank(a) ==
  CASE a.title \in {"Urgent: Soil Critically Dry", "Soil Moisture Critical",
                    "Soil Moisture Low"} -> 1
    [] a.title \in {"Water Tank Nearly Empty", "Water Tank Low"} -> 2
    [] a.title \in {"Extreme Temperature Alert", "Temperature Warning",
                    "High Temperature Alert", "High Temperature",
                    "Low Temperature"} -> 3
    [] a.title \in {"Critical Light Deficiency", "Insufficient Light",
                    "Low Light Conditions"} -> 4
    [] OTHER -> 0

\* the list shown is the rule-based list of a fully present snapshot
RuleBasedPresent ==
  shown.path \in {"service", "basic"} /\ ~hasNullValues(sensorData)

\* C15: the rule-based list of a fully present snapshot has at most one
\* advisory per field, in the order soil moisture, water level, temperature,
\* light: the ranks strictly increase along the list
C15_PriorityOrder ==
  RuleBasedPresent =>
    \A i, j \in DOMAIN aiRecommendations :
      i < j => priorityRank(aiRecommendations[i]) < priorityRank(aiRecommendations[j])

\* some soil-moisture, water-level, temperature or light rule of the
\* computation that produced the list holds of the snapshot
ruleFires(path, f, data) ==
  CASE path = "basic" ->
         \/ data.soilMoisture < 500
         \/ data.temperature > 350 \/ data.temperature < 100
         \/ data.waterLevel < 200
         \/ data.light < 2000
    [] path = "service" /\ f = "nullable" ->
         \/ data.soilMoisture < 200
         \/ data.waterLevel < 200
         \/ data.temperature < 100 \/ data.temperature > 350
         \/ data.light < 3000
    [] OTHER ->
         \/ data.soilMoisture < 300
         \/ data.waterLevel < 200
         \/ data.temperature > 350
         \/ data.light < 2000

\* C16: the rule-based list of a fully present snapshot contains a Good
\* advisory if and only if no rule fires, it is then that one advisory, and
\* Good never stands beside a Warning or Critical advisory
C16_GoodIffNoRuleFires ==
  RuleBasedPresent =>
    LET hasGood == \E i \in DOMAIN aiRecommendations :
                     aiRecommendations[i].type = "good"
    IN /\ hasGood <=> ~ruleFires(shown.path, file, sensorData)
       /\ hasGood => Len(aiRecommendations) = 1
       /\ ~hasGood => \A i \in DOMAIN aiRecommendations :
                        aiRecommendations[i].type \in {"warning", "critical"}

C16_Witness ==
  /\ shown.path = "service" /\ file = "nullable"
  /\ sensorData.soilMoisture = 200 /\ sensorData.waterLevel = 200
  /\ sensorData.temperature = 100 /\ sensorData.light = 3000
  /\ Len(aiRecommendations) = 1 /\ aiRecommendations[1].type = "good"

\* C17: for the dashboard's initial snapshot the rule-based list is exactly
\* one advisory, and it is Good
C17_InitialSnapshotGood ==
  (shown.path \in {"service", "basic"} /\ shown.data = InitialSensorData) =>
    (Len(aiRecommendations) = 1 /\ aiRecommendations[1].type = "good")

C17_Witness ==
  /\ shown.path = "service" /\ file = "nullable"
  /\ shown.data = InitialSensorData
  /\ aiRecommendations[1].title = "Conditions Look Good"

\* the position at which a name was first appended to a list
FirstIndex(s, name) ==
  CHOOSE i \in DOMAIN s : s[i] = name /\ \A j \in 1..(i - 1) : s[j] # name

\* C18: the list getSuitablePlants of the service returns has no entry twice,
\* has at most 8 entries, and has its entries in the order in which they were
\* first appended
C18_PlantsUniqueCappedOrdered ==
  plantsShown.path = "service" =>
    LET acc == accumulatedPlants(plantsShown.data) IN
    /\ \A i, j \in DOMAIN suitablePlants :
         i # j => suitablePlants[i] # suitablePlants[j]
    /\ Len(suitablePlants) <= 8
    /\ suitablePlants # PlantsUnavailable =>
         /\ \A i \in DOMAIN suitablePlants :
              \E k \in DOMAIN acc : acc[k] = suitablePlants[i]
         /\ \A i, j \in DOMAIN suitablePlants :
              i < j => FirstIndex(acc, suitablePlants[i])
                         < FirstIndex(acc, suitablePlants[j])

\* a list that had a duplicate (Lettuce) removed and was cut at 8
C18_Witness ==
  /\ plantsShown.path = "service"
  /\ Len(accumulatedPlants(plantsShown.data)) > 8
  /\ Len(suitablePlants) = 8
  /\ Len(SelectSeq(accumulatedPlants(plantsShown.data),
                   LAMBDA n : n = "Lettuce")) = 2
  /\ \E i \in DOMAIN suitablePlants : suitablePlants[i] = "Lettuce"

RequiredFields == {"temperature", "humidity", "light", "soilMoisture"}

accumulatedBy(path, data) ==
  IF path = "basic" THEN accumulatedPlantsBasic(data) ELSE accumulatedPlants(data)

\* the humid/tropical set and the sets chosen by the light level
TropicalSet(path) ==
  IF path = "basic" THEN {"Ferns", "Orchids", "Tropical plants"}
  ELSE {"Tropical herbs", "Lettuce", "Spinach"}

LowLightSets(path) ==
  IF path = "basic" THEN {{"Pothos", "Snake Plant", "ZZ Plant"}}
  ELSE {{"Lettuce", "Arugula", "Microgreens"},
        {"Herbs", "Leafy greens", "Strawberries"},
        {"Sunflowers", "Marigolds", "Zinnias"}}

Names(s) == {s[i] : i \in DOMAIN s}

\* C20: for a fully present snapshot the accumulated list includes the
\* humid/tropical set whenever humidity > 60 and a low-light set whenever
\* light <= 200, whatever the other fields are
C20_IndependentPlantRules ==
  (plantsShown.path \in {"service", "basic"} /\ ~hasNullValues(plantsShown.data)) =>
    LET acc == Names(accumulatedBy(plantsShown.path, plantsShown.data)) IN
    /\ plantsShown.data.humidity > 600 => TropicalSet(plantsShown.path) \subseteq acc
    /\ plantsShown.data.light <= 2000 =>
         \E set \in LowLightSets(plantsShown.path) : set \subseteq acc

\* the lines of a response text, trimmed, that start with a label
LabelledLines(text, label) ==
  SelectSeq([i \in DOMAIN text |-> Trim(text[i])],
            LAMBDA line : line # <<>> /\ Head(line) = label)

\* the words of the PRIORITY value, lower-cased: of the last PRIORITY line,
\* and none when the text has no such line
PriorityWords(text) ==
  LET lines == LabelledLines(text, "PRIORITY:") IN
  IF lines = <<>> THEN {}
  ELSE {w \in {"critical", "warning"} :
          \E i \in DOMAIN lines[Len(lines)] :
            LowerFrag(lines[Len(lines)][i]) = w}

\* C21: the severity of a parsed advisory is Critical when the lower-cased
\* PRIORITY value contains 'critical', otherwise Warning when it contains
\* 'warning', otherwise Good, as it is when the text has no PRIORITY line
C21_PriorityBySubstring ==
  shown.path = "ai-parsed" =>
    aiRecommendations[1].type =
      (IF "critical" \in PriorityWords(shown.text) THEN "critical"
       ELSE IF "warning" \in PriorityWords(shown.text) THEN "warning"
       ELSE "good")

C21_Witness ==
  /\ shown.path = "ai-parsed"
  /\ PriorityWords(shown.text) = {"warning"}
  /\ aiRecommendations[1].type = "warning"

\* C22: a parsed response gives exactly one advisory, with confidence 0.85,
\* whose title, action and message are the default literals when the text has
\* no TITLE:, ACTION: or REASON: line
C22_DefaultsAndConfidence ==
  shown.path = "ai-parsed" =>
    /\ Len(aiRecommendations) = 1
    /\ aiRecommendations[1].confidence = 85
    /\ LabelledLines(shown.text, "TITLE:") = <<>>
         => aiRecommendations[1].title = "System Analysis"
    /\ LabelledLines(shown.text, "ACTION:") = <<>>
         => aiRecommendations[1].action = "Continue monitoring"
    /\ LabelledLines(shown.text, "REASON:") = <<>>
         => aiRecommendations[1].message = "Conditions are stable"

C22_Witness ==
  /\ shown.path = "ai-parsed"
  /\ shown.text # <<>>
  /\ LabelledLines(shown.text, "REASON:") = <<>>
  /\ LabelledLines(shown.text, "TITLE:") = <<>>
  /\ aiRecommendations[1].title = "System Analysis"
  /\ aiRecommendations[1].message = "Conditions are stable"
  /\ aiRecommendations[1].type = "good"

\* C23: the snapshot changes only to a whole reading (the null reading, a
\* drawn simulation or the submitted form), the cards and the plant list are
\* computed from the one current snapshot, and an edit of the form changes
\* neither the snapshot nor the cards
C23_WholeSnapshotReplaced ==
  [][ /\ sensorData' # sensorData =>
           sensorData' \in ({NullSnapshot} \cup SimSnapshots \cup {formData})
      /\ cardStatus' = renderStatus(sensorData', selectedRegion')
      /\ plantsShown' # plantsShown => plantsShown'.data = sensorData
      /\ formData' # formData =>
           (sensorData' = sensorData /\ cardStatus' = cardStatus /\ ~recEffect') ]_vars

C23_Witness ==
  /\ "soilMoisture" \in editedFields
  /\ sensorData = formData
  /\ sensorData.soilMoisture = 250
  /\ sensorData.light = 4500
  /\ cardStatus.soilMoisture = "warning"
  /\ plantsShown.data = sensorData

\* C27: the snapshot is entirely absent or entirely present, and entirely
\* absent when the arduino source is selected and its effect has run
C27_AllAbsentOrAllPresent ==
  /\ \/ \A f \in Fields : sensorData[f] = Null
     \/ \A f \in Fields : sensorData[f] # Null
  /\ (dataSource = "arduino" /\ indexEffects = {}) =>
       \A f \in Fields : sensorData[f] = Null

\* back in arduino mode, after a manual submission in between
C27_Witness ==
  /\ dataSource = "arduino" /\ indexEffects = {}
  /\ timer = "arduino"
  /\ editedFields # {}
  /\ \A f \in Fields : sensorData[f] = Null

\* C28: a submit of the form with no field edited leaves the snapshot as it is
C28_UneditedSubmitKeepsSnapshot ==
  [][(handleSubmit /\ editedFields = {}) => sensorData' = sensorData]_vars

\* C24: when a call of initialize() resolves, no pipeline load is in flight
C24_ResolvesAfterLoad ==
  [][\A c \in InitCallers :
       (initCalls[c].pc \in {"idle", "loading"} /\ initCalls'[c].pc = "returned")
         => ~isInitializing']_vars

\* the initialize() calls whose pipeline load is in flight
Loading == {c \in InitCallers : initCalls[c].pc = "loading"}

\* C25: at most one load is in flight (and isInitializing is set exactly
\* then), isInitialized implies the generator is set, after a success a call
\* of initialize() changes nothing in the service, and after a failure, with
\* no load in flight, a call of initialize() starts a new load
C25_InitializeStateMachine ==
  /\ [](/\ Cardinality(Loading) <= 1
        /\ isInitializing <=> Loading # {}
        /\ isInitialized => generator # NoGenerator)
  /\ [][\A c \in InitCallers :
          (initCalls[c].pc = "idle" /\ initCalls'[c].pc # "idle") =>
            /\ isInitialized =>
                 /\ initCalls'[c].load = "noop"
                 /\ UNCHANGED <<generator, isInitializing, isInitialized>>
            /\ (~isInitialized /\ Loading = {}) =>
                 (initCalls'[c].pc = "loading" /\ isInitializing')]_vars

\* a new load started after a failed one
C25_Witness ==
  /\ initCalls[1].load = "failed"
  /\ initCalls[2].pc = "loading"
  /\ isInitializing /\ ~isInitialized /\ generator = NoGenerator

\* C26: isLoadingAI is true exactly while a generation call is in flight
C26_LoadingWhileInFlight == isLoadingAI <=> calls # <<>>

====
